---- MODULE Spec2Model ----
(***************************************************************************)
(* Model of pgf/analysis/analysis.py: the Analysis driver that reads the   *)
(* guesser's output from stdin, batches plaintext candidates or parses     *)
(* JtR status lines, kills the guesser's process tree at the configured    *)
(* ceiling and asks the analysis scheme for its report.                    *)
(*                                                                         *)
(* A text line is a sequence of one-character strings.                     *)
(***************************************************************************)
EXTENDS Integers, Sequences, FiniteSets, TLC

VARIABLES
    filetype,             \* 'plaintext' or 'hashvalues'
    analysis_interval,    \* batch size
    terminate_guessing,   \* ceiling, NoCeiling for None
    stdin,                \* the lines sys.stdin will yield
    pos,                  \* number of lines already yielded
    received_candidates,  \* the reused candidate list
    index,                \* write index into received_candidates
    candidate_counter,    \* counted candidates / coarse progress count
    line,                 \* the hash loop's local `line`, Unbound before the first iteration
    pc,                   \* "running", "done" or "crashed"
    exc,                  \* the exception that left execute(), "none" otherwise
    calls,                \* calls made on the analysis scheme and kill_guesser, in order
    kills,                \* os.kill attempts, in order
    killEnv               \* the process table kill_guesser met

vars == <<filetype, analysis_interval, terminate_guessing, stdin, pos,
          received_candidates, index, candidate_counter, line, pc, exc,
          calls, kills, killEnv>>

----------------------------------------------------------------------------
(* Bounds *)

MaxStream == 4      \* plaintext: longest candidate stream
MaxInterval == 3    \* plaintext: largest analysis_interval
MaxCeiling == 3     \* plaintext: largest terminate_guessing
MaxLines == 3       \* hash mode: longest status stream
MaxThousands == 2   \* hash mode: largest terminate_guessing, in thousands
MaxFailing == 1     \* processes whose os.kill fails
MaxDigits == 4      \* longest candidates-processed field of a generated status line

----------------------------------------------------------------------------
(* Values *)

NoCeiling == -1                 \* terminate_guessing is None
NoneEntry == <<"None">>         \* a slot of [None] * analysis_interval
Unbound == <<"unbound">>        \* a local variable that was never assigned
guesser_pid == 1

NL == "\n"

Digits == {"0", "1", "2", "3", "4", "5", "6", "7", "8", "9"}

DigitVal(c) ==
    CASE c = "0" -> 0 [] c = "1" -> 1 [] c = "2" -> 2 [] c = "3" -> 3
      [] c = "4" -> 4 [] c = "5" -> 5 [] c = "6" -> 6 [] c = "7" -> 7
      [] c = "8" -> 8 [] c = "9" -> 9

Whitespace == {" ", "\t", "\n", "\r"}

----------------------------------------------------------------------------
(* String operations *)

\* s[:-k]
DropLast(s, k) == IF Len(s) <= k THEN <<>> ELSE SubSeq(s, 1, Len(s) - k)

\* int(s) for a string of decimal digits
RECURSIVE ToInt(_)
ToInt(s) ==
    IF s = <<>> THEN 0
    ELSE 10 * ToInt(SubSeq(s, 1, Len(s) - 1)) + DigitVal(s[Len(s)])

\* the position after the longest run of digits that starts at i ([0-9]*)
RECURSIVE SkipDigits(_, _)
SkipDigits(s, i) ==
    IF i <= Len(s) /\ s[i] \in Digits THEN SkipDigits(s, i + 1) ELSE i

CharAt(s, i, c) == i <= Len(s) /\ s[i] = c

\* status_line_re.match(line): '^[0-9]*g\s[0-9]*p'
StatusLineMatch(s) ==
    LET g == SkipDigits(s, 1)
        p == SkipDigits(s, g + 2)
    IN /\ CharAt(s, g, "g")
       /\ g + 1 <= Len(s) /\ s[g + 1] \in Whitespace
       /\ CharAt(s, p, "p")

\* candidates_processed_re.findall(line)[0]: the leftmost match of '[0-9]*p'
RECURSIVE FirstProcessed(_, _)
FirstProcessed(s, i) ==
    LET e == SkipDigits(s, i)
    IN IF i > Len(s) THEN <<>>
       ELSE IF CharAt(s, e, "p") THEN SubSeq(s, i, e)
       ELSE FirstProcessed(s, i + 1)

\* sub in s
Contains(s, sub) ==
    \E i \in 1..(Len(s) - Len(sub) + 1) : SubSeq(s, i, i + Len(sub) - 1) = sub

SessionCompleted ==
    <<"S","e","s","s","i","o","n"," ","c","o","m","p","l","e","t","e","d">>

\* CoarseCount with temp[:-3]: only the 'p' and two digits are cut
CoarseCount_DropThree(temp) == ToInt(DropLast(temp, 3) \o <<"0", "0", "0">>)

\* temp[:-4] + '000', cast to int
CoarseCount(temp) == ToInt(DropLast(temp, 4) \o <<"0", "0", "0">>)

----------------------------------------------------------------------------
(* kill_guesser *)

\* Process trees rooted at guesser_pid: pid |-> parent pid
TreeTwoByTwo == (2 :> 1) @@ (3 :> 1) @@ (4 :> 2) @@ (5 :> 3)
TreeOneChild == (2 :> 1)
TreeLeaf == [p \in {} |-> 0]
Trees == {TreeTwoByTwo, TreeOneChild, TreeLeaf}

RECURSIVE IsDescendant(_, _, _)
IsDescendant(tree, p, root) ==
    /\ p \in DOMAIN tree
    /\ \/ tree[p] = root
       \/ IsDescendant(tree, tree[p], root)

Descendants(tree, root) == {p \in DOMAIN tree : IsDescendant(tree, p, root)}

Orderings(S) ==
    {f \in [1..Cardinality(S) -> S] : \A i, j \in DOMAIN f : i # j => f[i] # f[j]}

Range(f) == {f[i] : i \in DOMAIN f}

\* What psutil and os.kill meet when kill_guesser runs:
\*   lookup    outcome of psutil.Process(guesser_pid)
\*   enum      outcome of p.children(recursive=True)
\*   children  the list it returns
\*   failing   the pids on which os.kill raises OSError
Envs ==
    {[tree |-> t, lookup |-> l, enum |-> "none", children |-> <<>>, failing |-> {}] :
        t \in {TreeLeaf}, l \in {"NoSuchProcess", "AccessDenied"}}
    \cup
    {[tree |-> t, lookup |-> "none", enum |-> e, children |-> <<>>, failing |-> F] :
        t \in {TreeLeaf}, e \in {"NoSuchProcess", "AccessDenied"},
        F \in {{}, {guesser_pid}}}
    \cup
    UNION {
        {[tree |-> t, lookup |-> "none", enum |-> "none", children |-> o, failing |-> F] :
            o \in Orderings(Descendants(t, guesser_pid)),
            F \in {X \in SUBSET (Descendants(t, guesser_pid) \cup {guesser_pid}) :
                       Cardinality(X) <= MaxFailing}} :
        t \in Trees}

NoEnv == [tree |-> TreeLeaf, lookup |-> "unused", enum |-> "unused",
          children |-> <<>>, failing |-> {}]

\* except psutil.NoSuchProcess (lines 177, 188)
InnerCatches == {"NoSuchProcess"}

\* OuterCatches for `except (psutil.NoSuchProcess, OSError)`
OuterCatches_Narrow == {"NoSuchProcess", "OSError"}

\* except Exception (line 193)
OuterCatches == {"NoSuchProcess", "AccessDenied", "UnboundLocalError", "OSError"}

\* for child in children: os.kill(child.pid, signal.SIGKILL)
RECURSIVE KillChildren(_, _, _)
KillChildren(children, failing, done) ==
    IF children = <<>> THEN [kills |-> done, exc |-> "none"]
    ELSE IF Head(children) \in failing
         THEN [kills |-> Append(done, Head(children)), exc |-> "OSError"]
         ELSE KillChildren(Tail(children), failing, Append(done, Head(children)))

\* kill_guesser with the root killed before its descendants
kill_guesser_RootFirst(env) ==
    LET bound == env.lookup = "none"
        first == IF env.lookup \in InnerCatches THEN "none" ELSE env.lookup
        root == IF guesser_pid \in env.failing THEN "OSError" ELSE "none"
        body == IF ~bound THEN [kills |-> <<>>, exc |-> "UnboundLocalError"]
                ELSE IF env.enum # "none" THEN [kills |-> <<>>, exc |-> env.enum]
                ELSE IF root # "none" THEN [kills |-> <<guesser_pid>>, exc |-> root]
                ELSE KillChildren(env.children, env.failing, <<guesser_pid>>)
        second == IF body.exc \in InnerCatches THEN "none" ELSE body.exc
        inner ==
            IF first # "none" THEN [kills |-> <<>>, exc |-> first]
            ELSE [kills |-> body.kills, exc |-> second]
    IN [kills |-> inner.kills,
        exc |-> IF inner.exc \in OuterCatches THEN "none" ELSE inner.exc]

\* The os.kill attempts of one kill_guesser call, and the exception that
\* leaves it ("none" when it returns normally).
kill_guesser(env) ==
    LET \* lines 175-179
        bound == env.lookup = "none"
        first == IF env.lookup \in InnerCatches THEN "none" ELSE env.lookup
        \* lines 180-190
        body == IF ~bound THEN [kills |-> <<>>, exc |-> "UnboundLocalError"]
                ELSE IF env.enum # "none" THEN [kills |-> <<>>, exc |-> env.enum]
                ELSE KillChildren(env.children, env.failing, <<>>)
        second == IF body.exc \in InnerCatches THEN "none" ELSE body.exc
        \* line 191
        root == IF guesser_pid \in env.failing THEN "OSError" ELSE "none"
        inner ==
            IF first # "none" THEN [kills |-> <<>>, exc |-> first]
            ELSE IF second # "none" THEN [kills |-> body.kills, exc |-> second]
            ELSE [kills |-> Append(body.kills, guesser_pid), exc |-> root]
    IN [kills |-> inner.kills,
        exc |-> IF inner.exc \in OuterCatches THEN "none" ELSE inner.exc]

----------------------------------------------------------------------------
(* The analysis scheme's entry points, as entries of the call log.  `at` is *)
(* the number of lines read from stdin when the call is made.               *)

Call(op, arg, at) == [op |-> op, arg |-> arg, at |-> at]

RemoveAt(s, i) == SubSeq(s, 1, i - 1) \o SubSeq(s, i + 1, Len(s))

\* for i in range(analysis_interval - 1, index - 1, -1): del received_candidates[i]
RECURSIVE DeleteDown(_, _, _)
DeleteDown(rc, i, stop) ==
    IF i <= stop THEN rc ELSE DeleteDown(RemoveAt(rc, i), i - 1, stop)

\* handle_close that never forwards last_line
handle_close_DropsLastLine(ft, rc, idx, cl, last_line, at) ==
    LET trimmed == DeleteDown(rc, Len(rc), idx)
        flush == ft = "plaintext" /\ idx > 0
        cl1 == IF flush THEN Append(cl, Call("process_candidates", trimmed, at))
               ELSE cl
    IN [received_candidates |-> IF flush THEN trimmed ELSE rc,
        index |-> IF flush THEN 0 ELSE idx,
        calls |-> Append(cl1, Call("gen_report", <<>>, at))]

\* handle_close without the `self.index > 0` test
handle_close_AlwaysFlushes(ft, rc, idx, cl, last_line, at) ==
    LET trimmed == DeleteDown(rc, Len(rc), idx)
        flush == ft = "plaintext"
        forward == ft # "plaintext" /\ last_line # NoneEntry
        cl1 == IF flush THEN Append(cl, Call("process_candidates", trimmed, at))
               ELSE IF forward THEN Append(cl, Call("process_status_line", last_line, at))
               ELSE cl
    IN [received_candidates |-> IF flush THEN trimmed ELSE rc,
        index |-> IF flush THEN 0 ELSE idx,
        calls |-> Append(cl1, Call("gen_report", <<>>, at))]

\* handle_close without the flush of the remaining candidates
handle_close_NoFlush(ft, rc, idx, cl, last_line, at) ==
    LET forward == ft # "plaintext" /\ last_line # NoneEntry
        cl1 == IF forward THEN Append(cl, Call("process_status_line", last_line, at))
               ELSE cl
    IN [received_candidates |-> rc,
        index |-> idx,
        calls |-> Append(cl1, Call("gen_report", <<>>, at))]

\* handle_close(last_line): the list, the index and the call log it leaves
handle_close(ft, rc, idx, cl, last_line, at) ==
    LET trimmed == DeleteDown(rc, Len(rc), idx)
        flush == ft = "plaintext" /\ idx > 0
        forward == ft # "plaintext" /\ last_line # NoneEntry
        cl1 == IF flush THEN Append(cl, Call("process_candidates", trimmed, at))
               ELSE IF forward THEN Append(cl, Call("process_status_line", last_line, at))
               ELSE cl
    IN [received_candidates |-> IF flush THEN trimmed ELSE rc,
        index |-> IF flush THEN 0 ELSE idx,
        calls |-> Append(cl1, Call("gen_report", <<>>, at))]

\* kill_guesser() followed by handle_close(last_line), the way every
\* terminating branch of execute() runs them
KillAndClose(env, ft, rc, idx, cl, last_line, at) ==
    LET k == kill_guesser(env)
        cl1 == Append(cl, Call("kill_guesser", <<>>, at))
        h == handle_close(ft, rc, idx, cl1, last_line, at)
    IN IF k.exc # "none"
       THEN [received_candidates |-> rc, index |-> idx, calls |-> cl1,
             kills |-> k.kills, pc |-> "crashed", exc |-> k.exc]
       ELSE [received_candidates |-> h.received_candidates, index |-> h.index,
             calls |-> h.calls, kills |-> k.kills, pc |-> "done", exc |-> "none"]

----------------------------------------------------------------------------
(* Inputs *)

Seqs(S, n) == UNION {[1..k -> S] : k \in 0..n}

CandidateLines == {<<"a", NL>>, <<"b", "c", NL>>}

\* What `for candidate in sys.stdin` yields: every line ends with '\n',
\* except that the last line of the stream may lack it.
CandidateStreams ==
    LET T == Seqs(CandidateLines, MaxStream)
    IN T \cup {[s EXCEPT ![Len(s)] = DropLast(s[Len(s)], 1)] : s \in T \ {<<>>}}

StatusLines == {
    <<"1","g"," ","1","0","0","8","p",NL>>,
    <<"2","g"," ","2","3","4","5","p"," ","x",NL>>,
    <<"0","g"," ","9","9","9","p",NL>>,
    <<"3","g"," ","2","0","0","0","p"," ">> \o SessionCompleted \o <<NL>>,
    SessionCompleted \o <<NL>>,
    <<"L","o","a","d","e","d",NL>> }

StatusStreams == Seqs(StatusLines, MaxLines)

FieldDigits == {"0", "4", "8"}

\* '<digits>g<space><digits>p<rest>' for every short field over FieldDigits
GeneratedStatusLines ==
    {g \o <<"g", " ">> \o p \o <<"p">> \o r :
        g \in {<<>>, <<"7">>},
        p \in Seqs(FieldDigits, MaxDigits),
        r \in {<<NL>>, <<" ", "9", "p", NL>>}}

----------------------------------------------------------------------------
(* execute() *)

\* PlaintextTerminate with `>` for `==`: the loop stops one candidate late
PlaintextTerminate_Overshoot(cnt, c) == c # NoCeiling /\ cnt > c

\* BatchFull with `>` for `==`: the full buffer is not flushed
BatchFull_Late(idx, n) == idx > n

\* line 128
BatchFull(idx, n) == idx = n

\* line 124
PlaintextTerminate(cnt, c) == c # NoCeiling /\ cnt = c

\* HashTerminate without the `is not None` test
HashTerminate_NoNoneTest(cnt, c) == cnt >= c

\* HashTerminate with `>` for `>=`
HashTerminate_Strict(cnt, c) == c # NoCeiling /\ cnt > c

\* line 150
HashTerminate(cnt, c) == c # NoCeiling /\ cnt >= c

\* lines 112-114, for one job configuration and one input stream
Start(ft, n, c, input) ==
    /\ filetype = ft
    /\ analysis_interval = n
    /\ terminate_guessing = c
    /\ stdin = input
    /\ pos = 0
    /\ received_candidates = [i \in 1..n |-> NoneEntry]
    /\ index = 0
    /\ candidate_counter = 0
    /\ line = Unbound
    /\ pc = "running"
    /\ exc = "none"
    /\ calls = <<>>
    /\ kills = <<>>
    /\ killEnv = NoEnv

Init ==
    \/ \E n \in 1..MaxInterval, c \in {NoCeiling} \cup 0..MaxCeiling,
          input \in CandidateStreams :
          Start("plaintext", n, c, input)
    \/ \E c \in {NoCeiling} \cup {1000 * k : k \in 0..MaxThousands},
          input \in StatusStreams :
          Start("hashvalues", 1, c, input)

Finish(r, env) ==
    /\ received_candidates' = r.received_candidates
    /\ index' = r.index
    /\ calls' = r.calls
    /\ kills' = kills \o r.kills
    /\ killEnv' = env
    /\ pc' = r.pc
    /\ exc' = r.exc

\* lines 119-130 and, after the break, line 132: one iteration of the plaintext loop
PlaintextCandidate ==
    /\ pc = "running" /\ filetype = "plaintext" /\ pos < Len(stdin)
    /\ LET candidate == stdin[pos + 1]
           rc == [received_candidates EXCEPT ![index + 1] = DropLast(candidate, 1)]
           cnt == candidate_counter + 1
           idx == index + 1
       IN /\ pos' = pos + 1
          /\ candidate_counter' = cnt
          /\ IF PlaintextTerminate(cnt, terminate_guessing)
             THEN \E env \in Envs :
                    Finish(KillAndClose(env, filetype, rc, idx, calls, NoneEntry, pos + 1), env)
             ELSE /\ received_candidates' = rc
                  /\ IF BatchFull(idx, analysis_interval)
                     THEN /\ calls' = Append(calls, Call("process_candidates", rc, pos + 1))
                          /\ index' = 0
                     ELSE /\ calls' = calls
                          /\ index' = idx
                  /\ UNCHANGED <<kills, killEnv, pc, exc>>
    /\ UNCHANGED <<filetype, analysis_interval, terminate_guessing, stdin, line>>

\* line 132 after the loop ran out of input
PlaintextEnd ==
    /\ pc = "running" /\ filetype = "plaintext" /\ pos = Len(stdin)
    /\ LET h == handle_close(filetype, received_candidates, index, calls, NoneEntry, pos)
       IN /\ received_candidates' = h.received_candidates
          /\ index' = h.index
          /\ calls' = h.calls
          /\ pc' = "done"
    /\ UNCHANGED <<filetype, analysis_interval, terminate_guessing, stdin, pos,
                   candidate_counter, line, exc, kills, killEnv>>

\* HashSessionCompleted that closes with handle_close(last_line=line)
HashSessionCompleted_ForwardsLine ==
    /\ pc = "running" /\ filetype = "hashvalues" /\ pos < Len(stdin)
    /\ ~StatusLineMatch(stdin[pos + 1])
    /\ Contains(stdin[pos + 1], SessionCompleted)
    /\ pos' = pos + 1
    /\ line' = stdin[pos + 1]
    /\ IF terminate_guessing # NoCeiling
       THEN \E env \in Envs :
              Finish(KillAndClose(env, filetype, received_candidates, index, calls,
                                  stdin[pos + 1], pos + 1), env)
       ELSE LET h == handle_close(filetype, received_candidates, index, calls,
                                  stdin[pos + 1], pos + 1)
            IN /\ received_candidates' = h.received_candidates
               /\ index' = h.index
               /\ calls' = h.calls
               /\ pc' = "done"
               /\ UNCHANGED <<kills, killEnv, exc>>
    /\ UNCHANGED <<filetype, analysis_interval, terminate_guessing, stdin,
                   candidate_counter>>

\* HashSessionCompleted without the kill_guesser call of lines 140-141
HashSessionCompleted_NoKill ==
    /\ pc = "running" /\ filetype = "hashvalues" /\ pos < Len(stdin)
    /\ ~StatusLineMatch(stdin[pos + 1])
    /\ Contains(stdin[pos + 1], SessionCompleted)
    /\ pos' = pos + 1
    /\ line' = stdin[pos + 1]
    /\ LET h == handle_close(filetype, received_candidates, index, calls,
                             NoneEntry, pos + 1)
       IN /\ received_candidates' = h.received_candidates
          /\ index' = h.index
          /\ calls' = h.calls
          /\ pc' = "done"
          /\ UNCHANGED <<kills, killEnv, exc>>
    /\ UNCHANGED <<filetype, analysis_interval, terminate_guessing, stdin,
                   candidate_counter>>

\* lines 137-143: a line with 'Session completed' that is no status line
HashSessionCompleted ==
    /\ pc = "running" /\ filetype = "hashvalues" /\ pos < Len(stdin)
    /\ ~StatusLineMatch(stdin[pos + 1])
    /\ Contains(stdin[pos + 1], SessionCompleted)
    /\ pos' = pos + 1
    /\ line' = stdin[pos + 1]
    /\ IF terminate_guessing # NoCeiling
       THEN \E env \in Envs :
              Finish(KillAndClose(env, filetype, received_candidates, index, calls,
                                  NoneEntry, pos + 1), env)
       ELSE LET h == handle_close(filetype, received_candidates, index, calls,
                                  NoneEntry, pos + 1)
            IN /\ received_candidates' = h.received_candidates
               /\ index' = h.index
               /\ calls' = h.calls
               /\ pc' = "done"
               /\ UNCHANGED <<kills, killEnv, exc>>
    /\ UNCHANGED <<filetype, analysis_interval, terminate_guessing, stdin,
                   candidate_counter>>

\* lines 137, 144-145: any other line that is no status line
HashOtherLine ==
    /\ pc = "running" /\ filetype = "hashvalues" /\ pos < Len(stdin)
    /\ ~StatusLineMatch(stdin[pos + 1])
    /\ ~Contains(stdin[pos + 1], SessionCompleted)
    /\ pos' = pos + 1
    /\ line' = stdin[pos + 1]
    /\ UNCHANGED <<filetype, analysis_interval, terminate_guessing, stdin,
                   received_candidates, index, candidate_counter, pc, exc,
                   calls, kills, killEnv>>

\* HashStatusLine without the break of line 153: after kill_guesser the
\* line is forwarded and the loop goes on
HashStatusLine_NoBreak ==
    /\ pc = "running" /\ filetype = "hashvalues" /\ pos < Len(stdin)
    /\ StatusLineMatch(stdin[pos + 1])
    /\ LET l == stdin[pos + 1]
           temp == FirstProcessed(l, 1)
           cnt == CoarseCount(temp)
           forwarded == Call("process_status_line", l, pos + 1)
       IN /\ pos' = pos + 1
          /\ line' = l
          /\ candidate_counter' = cnt
          /\ IF HashTerminate(cnt, terminate_guessing)
             THEN \E env \in Envs :
                    /\ calls' = calls \o <<Call("kill_guesser", <<>>, pos + 1), forwarded>>
                    /\ kills' = kills \o kill_guesser(env).kills
                    /\ killEnv' = env
                    /\ UNCHANGED <<received_candidates, index, pc, exc>>
             ELSE /\ calls' = Append(calls, forwarded)
                  /\ UNCHANGED <<received_candidates, index, kills, killEnv, pc, exc>>
    /\ UNCHANGED <<filetype, analysis_interval, terminate_guessing, stdin>>

\* lines 146-154 and, after the break, line 155: a status line
HashStatusLine ==
    /\ pc = "running" /\ filetype = "hashvalues" /\ pos < Len(stdin)
    /\ StatusLineMatch(stdin[pos + 1])
    /\ LET l == stdin[pos + 1]
           temp == FirstProcessed(l, 1)
           cnt == CoarseCount(temp)
       IN /\ pos' = pos + 1
          /\ line' = l
          /\ candidate_counter' = cnt
          /\ IF HashTerminate(cnt, terminate_guessing)
             THEN \E env \in Envs :
                    Finish(KillAndClose(env, filetype, received_candidates, index,
                                        calls, l, pos + 1), env)
             ELSE /\ calls' = Append(calls, Call("process_status_line", l, pos + 1))
                  /\ UNCHANGED <<received_candidates, index, kills, killEnv, pc, exc>>
    /\ UNCHANGED <<filetype, analysis_interval, terminate_guessing, stdin>>

\* line 155 after the loop ran out of input: handle_close(last_line=line);
\* reading `line` raises UnboundLocalError when the loop never assigned it
HashEnd ==
    /\ pc = "running" /\ filetype = "hashvalues" /\ pos = Len(stdin)
    /\ IF line = Unbound
       THEN /\ pc' = "crashed"
            /\ exc' = "UnboundLocalError"
            /\ UNCHANGED <<received_candidates, index, calls>>
       ELSE LET h == handle_close(filetype, received_candidates, index, calls, line, pos)
            IN /\ received_candidates' = h.received_candidates
               /\ index' = h.index
               /\ calls' = h.calls
               /\ pc' = "done"
               /\ exc' = exc
    /\ UNCHANGED <<filetype, analysis_interval, terminate_guessing, stdin, pos,
                   candidate_counter, line, kills, killEnv>>

Next ==
    \/ PlaintextCandidate
    \/ PlaintextEnd
    \/ HashSessionCompleted
    \/ HashOtherLine
    \/ HashStatusLine
    \/ HashEnd

Spec == Init /\ [][Next]_vars

\* One generated status line, no ceiling: the hash loop reads it and closes
InitProgress ==
    \E l \in GeneratedStatusLines : Start("hashvalues", 1, NoCeiling, <<l>>)

NextProgress ==
    \/ HashStatusLine
    \/ HashEnd

SpecProgress == InitProgress /\ [][NextProgress]_vars

----------------------------------------------------------------------------
(* Vocabulary of the properties *)

Ops(op) == {k \in DOMAIN calls : calls[k].op = op}

Processing == Ops("process_candidates") \cup Ops("process_status_line")

Ended == pc # "running"

\* the text of a candidate line, without its line terminator
CandidateOf(l) == IF l # <<>> /\ l[Len(l)] = NL THEN SubSeq(l, 1, Len(l) - 1) ELSE l

RECURSIVE ConcatBatches(_)
ConcatBatches(cl) ==
    IF cl = <<>> THEN <<>>
    ELSE IF Head(cl).op = "process_candidates"
         THEN Head(cl).arg \o ConcatBatches(Tail(cl))
         ELSE ConcatBatches(Tail(cl))

CeilDiv(m, n) == (m + n - 1) \div n

\* the classification of a hash-mode line
IsProgress(l) == StatusLineMatch(l)
IsSessionComplete(l) == ~StatusLineMatch(l) /\ Contains(l, SessionCompleted)
IsIgnored(l) == ~StatusLineMatch(l) /\ ~Contains(l, SessionCompleted)

\* the digits of the candidates-processed field of a Progress line
ProcessedField(l) ==
    LET g == SkipDigits(l, 1)
    IN SubSeq(l, g + 2, SkipDigits(l, g + 2) - 1)

KillRan == killEnv # NoEnv

----------------------------------------------------------------------------
(* C1 *)

\* C1: in either mode, for every input stream and on every termination
\* path, once execute() has ended gen_report has been invoked exactly once,
\* and no process_candidates or process_status_line call follows it.
C1_ReportExactlyOnce ==
    /\ Cardinality(Ops("gen_report")) <= 1
    /\ \A r \in Ops("gen_report") : \A k \in Processing : k < r
    /\ Ended => Cardinality(Ops("gen_report")) = 1

----------------------------------------------------------------------------
(* C2 *)

\* C2: in plaintext mode without a ceiling, when execute() has ended,
\* process_candidates has been called exactly ceil(m/n) times and the
\* batches, concatenated in call order, are the stream's candidates.
C2_BatchesAreTheStream ==
    (Ended /\ filetype = "plaintext" /\ terminate_guessing = NoCeiling) =>
        /\ Cardinality(Ops("process_candidates")) = CeilDiv(Len(stdin), analysis_interval)
        /\ ConcatBatches(calls) = [i \in 1..Len(stdin) |-> CandidateOf(stdin[i])]

----------------------------------------------------------------------------
(* C3 *)

C3_Stops(c) ==
    /\ candidate_counter = c
    /\ pos = c
    /\ \E k \in Ops("kill_guesser") : calls[k].at = c
    /\ Len(ConcatBatches(calls)) <= c

----------------------------------------------------------------------------
(* C4 *)

\* the line just read is a Progress line on which the termination guard fired
GuardFired ==
    /\ filetype = "hashvalues" /\ pos >= 1
    /\ IsProgress(stdin[pos])
    /\ terminate_guessing # NoCeiling
    /\ candidate_counter >= terminate_guessing

\* C4 as stated: when a Progress line makes the guard fire, kill_guesser is
\* invoked and that line is never passed to process_status_line.
C4_FinalLineNotForwarded_Original ==
    GuardFired =>
        /\ \E k \in Ops("kill_guesser") : calls[k].at = pos
        /\ \A k \in Ops("process_status_line") : calls[k].at # pos

\* C4 as amended: when a Progress line makes the guard fire, kill_guesser is
\* invoked, the loop does not forward the line, and finalization passes it
\* to process_status_line exactly once, after kill_guesser and right before
\* gen_report.
C4_FinalLineForwardedOnClose ==
    GuardFired =>
        /\ \E k \in Ops("kill_guesser") : calls[k].at = pos
        /\ \E k \in Ops("process_status_line") :
              /\ calls[k].at = pos /\ calls[k].arg = stdin[pos]
              /\ \A j \in Ops("process_status_line") : calls[j].at = pos => j = k
              /\ k - 1 \in Ops("kill_guesser")
              /\ k + 1 \in Ops("gen_report")

C4_Witness ==
    /\ GuardFired /\ Ended
    /\ pos = 2 /\ terminate_guessing = 2000 /\ candidate_counter = 2000
    /\ Cardinality(Ops("process_status_line")) = 2

----------------------------------------------------------------------------
(* C5 *)

\* C5: when kill_guesser found the root and its descendants and the kill of
\* exactly one process of the tree failed, a kill has still been attempted
\* on every other descendant and on the root.
C5_OneFailureKeepsKilling ==
    (KillRan /\ killEnv.lookup = "none" /\ killEnv.enum = "none"
        /\ Cardinality(killEnv.failing) = 1) =>
        \A p \in (Range(killEnv.children) \cup {guesser_pid}) \ killEnv.failing :
            \E i \in DOMAIN kills : kills[i] = p

----------------------------------------------------------------------------
(* C6 *)

\* C6: in hash mode a line classified as Ignored is never passed to
\* process_status_line, wherever it occurs in the stream.
C6_IgnoredNeverForwarded ==
    filetype = "hashvalues" =>
        \A k \in Ops("process_status_line") : ~IsIgnored(calls[k].arg)

----------------------------------------------------------------------------
(* C7 *)

\* C7: in hash mode a 'Session completed' line that is no Progress line is
\* never passed to process_status_line, and once it is read no later line
\* is consumed or forwarded.
C7_SessionCompleteNeverForwarded ==
    filetype = "hashvalues" =>
        /\ \A k \in Ops("process_status_line") : ~IsSessionComplete(calls[k].arg)
        /\ \A i \in 1..pos : IsSessionComplete(stdin[i]) =>
              /\ pos = i
              /\ Ended
              /\ \A k \in Ops("process_status_line") : calls[k].at < i

C7_Witness ==
    /\ filetype = "hashvalues" /\ Ended
    /\ pos = 2 /\ Len(stdin) = 3
    /\ IsProgress(stdin[1]) /\ IsSessionComplete(stdin[2]) /\ IsProgress(stdin[3])
    /\ Cardinality(Ops("process_status_line")) = 1

----------------------------------------------------------------------------
(* C8 *)

\* C8: when the root exists and every kill succeeds, kill_guesser sends one
\* kill to each enumerated descendant, in the enumerated order, and then one
\* to the root; for two children with one child each that is 5 kills, the
\* root's the fifth.
C8_DescendantsThenRoot ==
    (KillRan /\ killEnv.lookup = "none" /\ killEnv.enum = "none"
        /\ killEnv.failing = {}) =>
        /\ kills = killEnv.children \o <<guesser_pid>>
        /\ killEnv.tree = TreeTwoByTwo =>
              /\ Len(kills) = 5
              /\ kills[5] = guesser_pid
              /\ {kills[i] : i \in 1..4} = {2, 3, 4, 5}

C8_Witness ==
    /\ KillRan /\ killEnv.tree = TreeTwoByTwo /\ killEnv.lookup = "none"
    /\ killEnv.enum = "none" /\ killEnv.failing = {}
    /\ kills = <<4, 2, 5, 3, 1>>

----------------------------------------------------------------------------
(* C9 *)

\* C9: no exception leaves kill_guesser, whatever fails inside it; with a
\* missing root no kill is attempted; and after kill_guesser the dispatcher
\* has gone on to gen_report.
C9_KillNeverRaises ==
    \A k \in Ops("kill_guesser") :
        /\ pc = "done" /\ exc = "none"
        /\ \E r \in Ops("gen_report") : r > k
        /\ killEnv.lookup = "NoSuchProcess" => kills = <<>>

C9_Witness ==
    /\ Ops("kill_guesser") # {}
    /\ killEnv.lookup = "NoSuchProcess"
    /\ pc = "done"

----------------------------------------------------------------------------
(* C10 *)

\* C10: after a Progress line whose candidates-processed field has value v,
\* the recorded count is 1000 * floor(v / 1000).
C10_CoarseCount ==
    (filetype = "hashvalues" /\ pos >= 1 /\ IsProgress(stdin[pos])
        /\ ProcessedField(stdin[pos]) # <<>>) =>
        candidate_counter = 1000 * (ToInt(ProcessedField(stdin[pos])) \div 1000)

C10_Witness ==
    /\ filetype = "hashvalues" /\ pos = 1
    /\ ProcessedField(stdin[1]) = <<"4", "0", "0", "8">>
    /\ candidate_counter = 4000


----------------------------------------------------------------------------
(* C11 *)

\* C11: when the termination ceiling is unset, kill_guesser is never
\* invoked and no kill is sent, in either mode and on any path.
C11_NoCeilingNoKill ==
    terminate_guessing = NoCeiling =>
        /\ Ops("kill_guesser") = {}
        /\ kills = <<>>
        /\ ~KillRan

C11_Witness ==
    /\ terminate_guessing = NoCeiling /\ filetype = "hashvalues" /\ Ended
    /\ pos = 3
    /\ IsProgress(stdin[1]) /\ IsProgress(stdin[2]) /\ IsSessionComplete(stdin[3])
    /\ candidate_counter = 2000

----------------------------------------------------------------------------
(* C12 *)

\* the thousand-truncated value of a Progress line's candidates-processed field
CoarseOf(l) == 1000 * (ToInt(ProcessedField(l)) \div 1000)

\* C12: in hash mode with a ceiling set, the step that reads a Progress line
\* invokes kill_guesser and leaves the loop if and only if the line's coarse
\* count is at least the ceiling; otherwise it forwards the line to
\* process_status_line and the loop goes on.
C12_TerminatesIffAtLeastCeiling ==
    [][(/\ filetype = "hashvalues" /\ terminate_guessing # NoCeiling
        /\ pos' = pos + 1 /\ IsProgress(stdin[pos + 1])) =>
           IF CoarseOf(stdin[pos + 1]) >= terminate_guessing
           THEN /\ \E k \in DOMAIN calls' :
                      calls'[k].op = "kill_guesser" /\ calls'[k].at = pos + 1
                /\ pc' # "running"
           ELSE /\ calls' = Append(calls, Call("process_status_line", stdin[pos + 1], pos + 1))
                /\ pc' = "running"]_vars

C12_Witness ==
    /\ filetype = "hashvalues" /\ terminate_guessing = 2000 /\ pos = 2
    /\ CoarseOf(stdin[1]) = 1000 /\ CoarseOf(stdin[2]) = 2000
    /\ IsProgress(stdin[1]) /\ IsProgress(stdin[2])
    /\ Ops("kill_guesser") # {}
    /\ \E k \in Ops("process_status_line") : calls[k].at = 1

----------------------------------------------------------------------------
(* C13 *)

\* C13: every batch passed to process_candidates has at least one entry.
C13_NoEmptyBatch ==
    \A k \in Ops("process_candidates") : Len(calls[k].arg) >= 1

C13_Witness ==
    /\ filetype = "plaintext" /\ Ended /\ terminate_guessing = NoCeiling
    /\ analysis_interval = 2 /\ Len(stdin) = 4
    /\ Cardinality(Ops("process_candidates")) = 2


----------------------------------------------------------------------------
(* C14 *)

\* C14 as stated: in plaintext mode, once the guard has fired and
\* kill_guesser was invoked, no process_candidates call is made any more.
C14_NoFlushAfterCeiling_Original ==
    filetype = "plaintext" =>
        \A k \in Ops("kill_guesser") : \A j \in Ops("process_candidates") : j < k

\* the number of candidates buffered when the c-th candidate has been stored
Buffered(c, n) == ((c - 1) % n) + 1

\* C14 as amended: in plaintext mode, when the guard fires, kill_guesser is
\* invoked and the loop is left without its own full-batch flush for that
\* candidate; finalization then passes the candidates buffered since the
\* last full flush to process_candidates exactly once, right after
\* kill_guesser and right before gen_report, so that c candidates are
\* passed on in all.
C14_FlushOnCloseAfterCeiling ==
    filetype = "plaintext" =>
        \A k \in Ops("kill_guesser") :
            LET c == terminate_guessing
                b == Buffered(c, analysis_interval)
            IN /\ pos = c
               /\ \A j \in Ops("process_candidates") : j < k => calls[j].at < pos
               /\ k + 1 \in Ops("process_candidates")
               /\ calls[k + 1].arg = [i \in 1..b |-> DropLast(stdin[c - b + i], 1)]
               /\ k + 2 \in Ops("gen_report")
               /\ Len(calls) = k + 2
               /\ Len(ConcatBatches(calls)) = c

C14_Witness ==
    /\ filetype = "plaintext" /\ Ended
    /\ terminate_guessing = 3 /\ analysis_interval = 2 /\ Len(stdin) = 4
    /\ Ops("kill_guesser") # {}
    /\ Cardinality(Ops("process_candidates")) = 2

----------------------------------------------------------------------------
(* C15 *)

\* C15 as stated: no step of execute() lowers candidate_counter.
C15_CounterMonotone_Original ==
    [][candidate_counter' >= candidate_counter]_vars

\* the Progress lines of the stream carry non-decreasing coarse counts
ProgressNonDecreasing ==
    \A i, j \in 1..Len(stdin) :
        (i < j /\ IsProgress(stdin[i]) /\ IsProgress(stdin[j])) =>
            CoarseOf(stdin[i]) <= CoarseOf(stdin[j])

\* C15 as amended: no step lowers candidate_counter in plaintext mode, nor
\* in hash mode when the coarse counts of the stream's Progress lines are
\* non-decreasing in stream order.
C15_CounterMonotone ==
    [][(filetype = "plaintext" \/ ProgressNonDecreasing) =>
           candidate_counter' >= candidate_counter]_vars

C15_Witness ==
    /\ filetype = "hashvalues" /\ ProgressNonDecreasing /\ pos = 3
    /\ IsProgress(stdin[1]) /\ IsProgress(stdin[2]) /\ IsProgress(stdin[3])
    /\ CoarseOf(stdin[1]) = 0 /\ CoarseOf(stdin[2]) = 1000
    /\ candidate_counter = 2000

----------------------------------------------------------------------------
(* C16 *)

Latest(S) == CHOOSE i \in S : \A j \in S : j <= i

\* C16: once a 'Session completed' line has been read, finalization has
\* forwarded nothing: the last line passed to process_status_line is the
\* most recent Progress line before it, forwarded when it was read, and
\* process_status_line was never called if no Progress line preceded it;
\* gen_report has followed.
C16_SessionCompleteForwardsNothing ==
    (filetype = "hashvalues" /\ pos >= 1 /\ IsSessionComplete(stdin[pos])) =>
        LET before == {i \in 1..(pos - 1) : IsProgress(stdin[i])}
            forwarded == Ops("process_status_line")
        IN /\ Ops("gen_report") # {}
           /\ IF before = {} THEN forwarded = {}
              ELSE /\ forwarded # {}
                   /\ calls[Latest(forwarded)].at = Latest(before)
                   /\ calls[Latest(forwarded)].arg = stdin[Latest(before)]
                   /\ \A r \in Ops("gen_report") : Latest(forwarded) < r

C16_Witness ==
    /\ filetype = "hashvalues" /\ Ended /\ pos = 3
    /\ IsProgress(stdin[1]) /\ IsIgnored(stdin[2]) /\ IsSessionComplete(stdin[3])
    /\ Cardinality(Ops("process_status_line")) = 1


----------------------------------------------------------------------------
(* C17 *)

\* C17: in hash mode with a ceiling configured, once a 'Session completed'
\* line has been read kill_guesser has been invoked for it, before
\* gen_report, whether or not the ceiling was reached.
C17_SessionCompleteKills ==
    (filetype = "hashvalues" /\ terminate_guessing # NoCeiling
        /\ pos >= 1 /\ IsSessionComplete(stdin[pos])) =>
        \E k \in Ops("kill_guesser") :
            /\ calls[k].at = pos
            /\ \E r \in Ops("gen_report") : k < r
            /\ \A r \in Ops("gen_report") : k < r

C17_Witness ==
    /\ filetype = "hashvalues" /\ Ended
    /\ terminate_guessing = 2000 /\ candidate_counter = 1000
    /\ pos = 2 /\ IsSessionComplete(stdin[2])
    /\ KillRan

----------------------------------------------------------------------------
(* C18 *)

\* C18: kill_guesser is invoked at most once in a run, and once it has been
\* invoked execute() has ended with no line read after the one that caused it.
C18_KillOneShot ==
    /\ Cardinality(Ops("kill_guesser")) <= 1
    /\ \A k \in Ops("kill_guesser") : Ended /\ calls[k].at = pos

C18_Witness ==
    /\ filetype = "hashvalues" /\ Ended
    /\ Cardinality(Ops("kill_guesser")) = 1
    /\ pos = 1 /\ Len(stdin) = 3
    /\ IsProgress(stdin[1]) /\ IsProgress(stdin[2]) /\ IsSessionComplete(stdin[3])
    /\ CoarseOf(stdin[2]) >= terminate_guessing

----------------------------------------------------------------------------
(* C19 *)

\* C19: in plaintext mode 0 <= index <= analysis_interval and the buffer has
\* at most analysis_interval entries in every state, and while the loop is
\* running index < analysis_interval and the buffer has all its slots, so
\* the next write falls inside it.
C19_BufferWithinInterval ==
    filetype = "plaintext" =>
        /\ 0 <= index /\ index <= analysis_interval
        /\ Len(received_candidates) <= analysis_interval
        /\ pc = "running" =>
              /\ index < analysis_interval
              /\ Len(received_candidates) = analysis_interval

C19_Witness ==
    /\ filetype = "plaintext" /\ pc = "running"
    /\ analysis_interval = 2 /\ pos = 3 /\ index = 1
    /\ Cardinality(Ops("process_candidates")) = 1

----------------------------------------------------------------------------
(* C20 *)

\* C20: in hash mode process_status_line receives lines of the stream in
\* stream order, no stream position more than once.
C20_ForwardedAtMostOnce ==
    filetype = "hashvalues" =>
        /\ \A k \in Ops("process_status_line") : calls[k].arg = stdin[calls[k].at]
        /\ \A j, k \in Ops("process_status_line") : j < k => calls[j].at < calls[k].at

====
